---------------------------- MODULE Spec2Model ----------------------------
(***************************************************************************)
(* Model of utils/rant-multi-site.js: the insertion of a rant into the     *)
(* timeline document (insertRant) and the git sequence around it           *)
(* (main, gitOperations).                                                  *)
(*                                                                         *)
(* A document is a sequence of tokens.  Each token stands for one piece of *)
(* text that the regular expressions of insertRant either match as a whole *)
(* or not at all.                                                          *)
(***************************************************************************)
EXTENDS Integers, Sequences, FiniteSets, TLC

(***************************************************************************)
(* Bounds of the model.                                                    *)
(***************************************************************************)
MaxInv == 2            \* invocations of the script that are started
MaxNow == 1            \* last reading of the clock; the clock ticks once a day
MaxCompetitor == 1     \* pushes of other clones that reach the remote

Procs == 1..2          \* invocations that may overlap on one working copy
Dates == 0..MaxNow

(***************************************************************************)
(* Tokens.  k is the kind, d a date key, n a clock reading or a count,     *)
(* x a text.                                                               *)
(***************************************************************************)
Tok(k, d, n, x) == [k |-> k, d |-> d, n |-> n, x |-> x]

TL == Tok("TL", 0, 0, 0)            \* <div class="rants-timeline">
DAY(d) == Tok("DAY", d, 0, 0)       \* <div class="rant-day" data-date="d">
HDROPEN == Tok("HDROPEN", 0, 0, 0)  \* <div class="date-header">
SPAN(d) == Tok("SPAN", d, 0, 0)     \* <span class="date">label of d</span>
CLOSE == Tok("CLOSE", 0, 0, 0)      \* </div>
WS(n) == Tok("WS", 0, n, 0)         \* n line feeds
CMT(d) == Tok("CMT", d, 0, 0)       \* <!-- d -->
TEXT(x) == Tok("TEXT", 0, 0, x)     \* any other hand-written text
UNDEF == Tok("UNDEF", 0, 0, 0)      \* the nine characters "undefined"
MARK(n) == Tok("MARK", 0, n, 0)     \* a conflict marker line written by git
\* <div class="rant-entry" id="rant-d-n"> time of n, anchor, text x </div>
ENTRY(d, n, x) == Tok("ENTRY", d, n, x)

(***************************************************************************)
(* getCurrentDateTime: the date key of a clock reading.  Readings of one   *)
(* day are one reading of the model's clock, so that two rants of a day    *)
(* have the same Date.now().                                               *)
(***************************************************************************)
DateOf(t) == t

(***************************************************************************)
(* String.prototype.slice on a document, positions counted in tokens.      *)
(* Undefined stands for the JavaScript value undefined: slice(0, undefined)*)
(* runs to the end, slice(undefined) starts at 0.                          *)
(***************************************************************************)
Undefined == -1

SliceTo(content, pos) ==
  IF pos = Undefined THEN content ELSE SubSeq(content, 1, pos)

SliceFrom(content, pos) ==
  IF pos = Undefined THEN content ELSE SubSeq(content, pos + 1, Len(content))

(***************************************************************************)
(* content.match(/<div class="rants-timeline">/): the position just after  *)
(* the first container marker, 0 when there is none.                       *)
(***************************************************************************)
Min(S) == CHOOSE i \in S : \A j \in S : i <= j

TimelineMatch(content) ==
  LET hits == {i \in 1..Len(content) : content[i] = TL}
  IN  IF hits = {} THEN 0 ELSE Min(hits)

(***************************************************************************)
(* content.match(datePattern): is there an opening tag of a day section    *)
(* for this date anywhere in the document?                                 *)
(***************************************************************************)
ExistingDateMatchNever(content, date) == FALSE

ExistingDateMatch(content, date) ==
  \E i \in 1..Len(content) : content[i] = DAY(date)

(***************************************************************************)
(* \s* of the header pattern: the first position from j on that holds no   *)
(* white space.                                                            *)
(***************************************************************************)
SkipWS(content, j) ==
  Min({k \in j..(Len(content) + 1) :
         k = Len(content) + 1 \/ content[k].k # "WS"})

Kind(content, j) == IF j \in 1..Len(content) THEN content[j].k ELSE "EOF"

(***************************************************************************)
(* The end of a match of dateHeaderPattern that starts at token i:         *)
(* opening tag of the day, \s*, <div class="date-header">, \s*,            *)
(* <span class="date">[^<]+</span>, \s*, </div>.  0 when it does not match.*)
(***************************************************************************)
HeaderEndAt(content, date, i) ==
  LET j1 == SkipWS(content, i + 1)
      j2 == SkipWS(content, j1 + 1)
      j3 == SkipWS(content, j2 + 1)
  IN  IF /\ content[i] = DAY(date)
         /\ Kind(content, j1) = "HDROPEN"
         /\ Kind(content, j2) = "SPAN"
         /\ Kind(content, j3) = "CLOSE"
      THEN j3 ELSE 0

(***************************************************************************)
(* content.match(dateHeaderPattern): the end of the first match, 0 when    *)
(* the pattern matches nowhere.                                            *)
(***************************************************************************)
DateHeaderMatch(content, date) ==
  LET hits == {i \in 1..Len(content) : HeaderEndAt(content, date, i) # 0}
  IN  IF hits = {} THEN 0 ELSE HeaderEndAt(content, date, Min(hits))

(***************************************************************************)
(* content.substring(timelineStart).match(/<div class="rant-day" ...): the *)
(* position just before the first day section after the container marker,  *)
(* or the position of the marker's end when there is none.                 *)
(***************************************************************************)
FirstDateMatchTop(content, timelineStart) == timelineStart

FirstDateMatch(content, timelineStart) ==
  LET hits == {i \in (timelineStart + 1)..Len(content) : content[i].k = "DAY"}
  IN  IF hits = {} THEN timelineStart ELSE Min(hits) - 1

(***************************************************************************)
(* The two templates of insertRant.                                        *)
(***************************************************************************)
NewEntryHTML(date, ms, text) ==
  << WS(2), ENTRY(date, ms, text) >>

NewSectionHTML(date, ms, text) ==
  << WS(2), CMT(date), WS(1), DAY(date), WS(1), HDROPEN, WS(1), SPAN(date),
     WS(1), CLOSE, WS(2), ENTRY(date, ms, text), WS(2), CLOSE >>

(***************************************************************************)
(* insertPosition and newRantHTML as insertRant leaves them before the     *)
(* splice.  In the branch of an existing date whose header does not match, *)
(* neither variable is assigned.                                           *)
(***************************************************************************)
\* dateHeaderMatch.index without "+ dateHeaderMatch[0].length"
InsertPositionAtMatchStart(content, date) ==
  IF ExistingDateMatch(content, date)
  THEN IF DateHeaderMatch(content, date) # 0
       THEN Min({i \in 1..Len(content) : HeaderEndAt(content, date, i) # 0}) - 1
       ELSE Undefined
  ELSE FirstDateMatch(content, TimelineMatch(content))

InsertPosition(content, date) ==
  IF ExistingDateMatch(content, date)
  THEN IF DateHeaderMatch(content, date) # 0
       THEN DateHeaderMatch(content, date)
       ELSE Undefined
  ELSE FirstDateMatch(content, TimelineMatch(content))

NewRantHTML(content, date, ms, text) ==
  IF ExistingDateMatch(content, date)
  THEN IF DateHeaderMatch(content, date) # 0
       THEN NewEntryHTML(date, ms, text)
       ELSE << UNDEF >>
  ELSE NewSectionHTML(date, ms, text)

(***************************************************************************)
(* content.slice(0, insertPosition) + newRantHTML +                        *)
(* content.slice(insertPosition)                                           *)
(***************************************************************************)
Splice(content, pos, html) ==
  SliceTo(content, pos) \o html \o SliceFrom(content, pos)

(***************************************************************************)
(* git status --porcelain prints one line per changed path.  A path and    *)
(* the output are sequences of pieces of text; String.prototype.includes   *)
(* looks for the pieces of the file name anywhere in the output.           *)
(***************************************************************************)
SiteFile == << "rants.qmd" >>          \* siteConfig.file
SiteBranch == "main"                   \* siteConfig.branch

Includes(s, sub) ==
  \E i \in 1..(Len(s) - Len(sub) + 1) : SubSeq(s, i, i + Len(sub) - 1) = sub

RECURSIVE StatusLines(_)
StatusLines(paths) ==
  IF paths = {} THEN << >>
  ELSE LET f == CHOOSE g \in paths : TRUE
       IN  << " M " >> \o f \o << "\n" >> \o StatusLines(paths \ {f})

(***************************************************************************)
(* What git merge makes of two descendants of one base.  A side's change   *)
(* is the tokens of the base it replaces, lo+1..hi, and what it puts there.*)
(* Two changes that leave base text between them merge cleanly; otherwise  *)
(* git writes both sides between conflict markers.                         *)
(***************************************************************************)
Max(S) == CHOOSE i \in S : \A j \in S : i >= j

CommonPrefix(a, b) ==
  Max({k \in 0..Len(a) : k <= Len(b) /\ SubSeq(a, 1, k) = SubSeq(b, 1, k)})

CommonSuffix(a, b, p) ==
  Max({k \in 0..(Len(a) - p) :
         /\ k <= Len(b) - p
         /\ SubSeq(a, Len(a) - k + 1, Len(a)) = SubSeq(b, Len(b) - k + 1, Len(b))})

Change(base, side) ==
  LET p == CommonPrefix(base, side)
      s == CommonSuffix(base, side, p)
  IN  [lo |-> p, hi |-> Len(base) - s, ins |-> SubSeq(side, p + 1, Len(side) - s)]

MergeClean(base, ours, theirs) ==
  LET a == Change(base, ours)
      b == Change(base, theirs)
  IN  a.hi < b.lo \/ b.hi < a.lo

Apply2(base, first, second) ==
  SubSeq(base, 1, first.lo) \o first.ins \o SubSeq(base, first.hi + 1, second.lo)
    \o second.ins \o SubSeq(base, second.hi + 1, Len(base))

MergeDoc(base, ours, theirs) ==
  LET a == Change(base, ours)
      b == Change(base, theirs)
      lo == IF a.lo < b.lo THEN a.lo ELSE b.lo
      hi == IF a.hi > b.hi THEN a.hi ELSE b.hi
      tail == Len(base) - hi
  IN  IF a.hi < b.lo THEN Apply2(base, a, b)
      ELSE IF b.hi < a.lo THEN Apply2(base, b, a)
      ELSE SubSeq(base, 1, lo) \o << MARK(1) >>
             \o SubSeq(ours, lo + 1, Len(ours) - tail) \o << MARK(2) >>
             \o SubSeq(theirs, lo + 1, Len(theirs) - tail) \o << MARK(3) >>
             \o SubSeq(base, hi + 1, Len(base))

(***************************************************************************)
(* State.                                                                  *)
(*   The repository of the site (siteConfig.path):                         *)
(*     wt         the document on disk (siteConfig.file in the work tree)  *)
(*     index      the staged content of the document                       *)
(*     head       tip of the checked-out branch: [doc, hist], hist the set *)
(*                of commits reachable from it                             *)
(*     branchRef  tip of the local branch named siteConfig.branch          *)
(*     checkedOut name of the checked-out branch                           *)
(*     merging    history of MERGE_HEAD, {} when no merge is in progress   *)
(*     unmerged   the document has unresolved conflicts in the index       *)
(*     others     other paths that git status reports as changed          *)
(*     commitDoc  the document of every commit, by commit number           *)
(*     remote     tip of siteConfig.branch on origin                       *)
(*   Each invocation p of the script:                                      *)
(*     pc         the call it is about to make                             *)
(*     opt        options.commit, options.push, the rant text              *)
(*     content    what readFileSync returned                               *)
(*     newContent content after the splice                                 *)
(*     date, ms   getCurrentDateTime().date and Date.now()                 *)
(*     exit       exit status, Running while it runs                       *)
(*     trace      the calls made so far, in order                          *)
(*     failed     the call that failed, "none" if none did                 *)
(*   now          the last reading of the machine's clock                  *)
(*   active       the invocations that may run (fixed from the start)      *)
(*   modes        the combinations of -c and -p in use (fixed)              *)
(*   nInv, nComp  invocations started, pushes of other clones              *)
(*   History kept for the properties:                                      *)
(*     written    entries that some invocation has written to the disk     *)
(*     lastWriter the invocation whose write the disk document is          *)
(*     compSince  a push of another clone reached origin after p's pull    *)
(*     published  commits that origin's branch has held                    *)
(*   autoLinkUrls on its own:                                              *)
(*     rantText   the raw text it is given                                 *)
(*     linked     what it returns, NotLinked before the call               *)
(***************************************************************************)
VARIABLES wt, index, head, branchRef, checkedOut, merging, unmerged, others,
          commitDoc, remote,
          pc, opt, content, newContent, date, ms, exit, trace, failed,
          now, nInv, nComp, active, modes,
          written, lastWriter, compSince, published,
          rantText, linked

repoVars == << wt, index, head, branchRef, checkedOut, merging, unmerged,
               others, commitDoc, remote >>
procVars == << pc, opt, content, newContent, date, ms, exit, trace, failed >>
histVars == << written, lastWriter, compSince, published >>
confVars == << active, modes >>
linkVars == << rantText, linked >>
vars == << repoVars, procVars, now, nInv, nComp, confVars, histVars, linkVars >>

Running == 0 - 1

NotLinked == << [k |-> "none", href |-> << >>, text |-> << >>] >>

(***************************************************************************)
(* Documents the repository may hold when the script is first run.         *)
(***************************************************************************)
Front == << TEXT(1), WS(2) >>
Back == << WS(1), CLOSE >>

OldSection(d) ==
  << WS(2), CMT(d), WS(1), DAY(d), WS(1), HDROPEN, WS(1), SPAN(d), WS(1),
     CLOSE, WS(2), ENTRY(d, 0, 0), WS(2), CLOSE >>

\* a section whose header is not the header block the script writes
BadSection(d) ==
  << WS(2), DAY(d), WS(1), TEXT(2), WS(2), ENTRY(d, 0, 0), WS(2), CLOSE >>

InitSections == {OldSection(d) : d \in Dates} \cup {BadSection(d) : d \in Dates}

InitDocs ==
  { Front \o Back, Front \o << TL >> \o Back }
  \cup { Front \o << TL >> \o s \o Back : s \in InitSections }
  \cup { Front \o << TL >> \o s \o t \o Back : s \in InitSections, t \in InitSections }
  \cup { Front \o s \o << TL >> \o Back : s \in InitSections }

OtherPaths == { {}, { << "notes.md" >>, << "old-", "rants.qmd" >> } }

InitState(docs, branches, paths, procs, flags, texts) ==
  /\ wt \in docs
  /\ index = wt
  /\ head = [doc |-> wt, hist |-> {1}]
  /\ branchRef = head
  /\ checkedOut \in branches
  /\ merging = {}
  /\ unmerged = FALSE
  /\ others \in paths
  /\ commitDoc = << wt >>
  /\ remote = head
  /\ pc = [p \in Procs |-> "idle"]
  /\ opt = [p \in Procs |-> [commit |-> FALSE, push |-> FALSE, text |-> 1]]
  /\ content = [p \in Procs |-> << >>]
  /\ newContent = [p \in Procs |-> << >>]
  /\ date = [p \in Procs |-> 0]
  /\ ms = [p \in Procs |-> 0]
  /\ exit = [p \in Procs |-> Running]
  /\ trace = [p \in Procs |-> << >>]
  /\ failed = [p \in Procs |-> "none"]
  /\ now = 0
  /\ nInv = 0
  /\ nComp = 0
  /\ active = procs
  /\ modes = flags
  /\ written = {}
  /\ lastWriter = 0
  /\ compSince = [p \in Procs |-> FALSE]
  /\ published = {1}
  /\ rantText \in texts
  /\ linked = NotLinked

InitWith(docs, branches, paths, procs, flags) ==
  InitState(docs, branches, paths, procs, flags, { << >> })

Plain == { << FALSE, FALSE >> }
AllModes == { << FALSE, FALSE >>, << TRUE, FALSE >>, << TRUE, TRUE >> }
OneSection == Front \o << TL >> \o OldSection(0) \o Back

\* runs without -c and -p, one after the other, on any of the documents
Init == InitWith(InitDocs, {SiteBranch}, {{}}, {1}, Plain)

\* runs with and without -c and -p, one after the other
InitSync ==
  InitWith({OneSection, Front \o Back}, {SiteBranch, "dev"}, {{}}, {1}, AllModes)

\* the same on any of the documents
InitFull == InitWith(InitDocs, {SiteBranch}, {{}}, {1}, AllModes)

\* runs that overlap on one working copy
InitRace == InitWith({OneSection}, {SiteBranch}, {{}}, Procs, AllModes)

(***************************************************************************)
(* process.exit(code), or the return of main, after the call `step`.       *)
(***************************************************************************)
Call(p, step) == trace' = [trace EXCEPT ![p] = Append(@, step)]

Goto(p, next) ==
  /\ pc' = [pc EXCEPT ![p] = next]
  /\ UNCHANGED << exit, failed >>

Return(p) ==
  /\ pc' = [pc EXCEPT ![p] = "done"]
  /\ exit' = [exit EXCEPT ![p] = 0]
  /\ UNCHANGED failed

Fail(p, step) ==
  /\ pc' = [pc EXCEPT ![p] = "done"]
  /\ exit' = [exit EXCEPT ![p] = 1]
  /\ failed' = [failed EXCEPT ![p] = step]

(***************************************************************************)
(* main up to the pull: the options are parsed and a rant text is there.   *)
(* -p sets options.commit too.                                             *)
(***************************************************************************)
RantText(n) == n     \* the text of the n-th invocation; no two are alike

\* main without the pull of lines 667-679
StartNoPull(p) ==
  /\ UNCHANGED linkVars
  /\ p \in active
  /\ pc[p] \in {"idle", "done"}
  /\ nInv < MaxInv
  /\ nInv' = nInv + 1
  /\ \E c \in BOOLEAN, ps \in BOOLEAN :
       /\ ps => c
       /\ << c, ps >> \in modes
       /\ opt' = [opt EXCEPT ![p] = [commit |-> c, push |-> ps,
                                     text |-> RantText(nInv + 1)]]
       /\ pc' = [pc EXCEPT ![p] = "insert"]
  /\ exit' = [exit EXCEPT ![p] = Running]
  /\ failed' = [failed EXCEPT ![p] = "none"]
  /\ trace' = [trace EXCEPT ![p] = << >>]
  /\ content' = [content EXCEPT ![p] = << >>]
  /\ newContent' = [newContent EXCEPT ![p] = << >>]
  /\ compSince' = [compSince EXCEPT ![p] = FALSE]
  /\ UNCHANGED << repoVars, date, ms, now, nComp, confVars, written, lastWriter,
                  published >>

Start(p) ==
  /\ UNCHANGED linkVars
  /\ p \in active
  /\ pc[p] \in {"idle", "done"}
  /\ nInv < MaxInv
  /\ nInv' = nInv + 1
  /\ \E c \in BOOLEAN, ps \in BOOLEAN :
       /\ ps => c
       /\ << c, ps >> \in modes
       /\ opt' = [opt EXCEPT ![p] = [commit |-> c, push |-> ps,
                                     text |-> RantText(nInv + 1)]]
       /\ pc' = [pc EXCEPT ![p] = IF ps THEN "pull" ELSE "insert"]
  /\ exit' = [exit EXCEPT ![p] = Running]
  /\ failed' = [failed EXCEPT ![p] = "none"]
  /\ trace' = [trace EXCEPT ![p] = << >>]
  /\ content' = [content EXCEPT ![p] = << >>]
  /\ newContent' = [newContent EXCEPT ![p] = << >>]
  /\ compSince' = [compSince EXCEPT ![p] = FALSE]
  /\ UNCHANGED << repoVars, date, ms, now, nComp, confVars, written, lastWriter,
                  published >>

(***************************************************************************)
(* git pull --no-rebase origin <branch>, run when -p was given.  It merges *)
(* origin's branch into the checked-out branch.  Any failure ends the      *)
(* script with status 1.                                                   *)
(***************************************************************************)
LocalChanges == wt # head.doc \/ index # head.doc

Diverged == ~(remote.hist \subseteq head.hist) /\ ~(head.hist \subseteq remote.hist)

MergeBase == commitDoc[Max(head.hist \cap remote.hist)]

SetHead(ref) ==
  /\ head' = ref
  /\ branchRef' = IF checkedOut = SiteBranch THEN ref ELSE branchRef

\* the catch of main: a warning, then process.exit(1)
PullFailedWarnOnly(p) ==
  /\ pc' = [pc EXCEPT ![p] = "insert"]
  /\ failed' = [failed EXCEPT ![p] = "pull"]
  /\ UNCHANGED exit

PullFailed(p) == Fail(p, "pull")

Pull(p) ==
  /\ UNCHANGED linkVars
  /\ pc[p] = "pull"
  /\ Call(p, "pull")
  /\ UNCHANGED << checkedOut, others, remote, opt, content, newContent, date, ms,
                  now, nInv, nComp, confVars, written, published >>
  /\ \/ \* no network, an unfinished merge, local changes in the way, ...
        /\ PullFailed(p)
        /\ UNCHANGED << wt, index, head, branchRef, merging, unmerged, commitDoc,
                        lastWriter, compSince >>
     \/ \* already up to date
        /\ merging = {}
        /\ remote.hist \subseteq head.hist
        /\ Goto(p, "insert")
        /\ compSince' = [q \in Procs |-> FALSE]
        /\ UNCHANGED << wt, index, head, branchRef, merging, unmerged, commitDoc,
                        lastWriter >>
     \/ \* fast-forward
        /\ merging = {}
        /\ head.hist \subseteq remote.hist /\ head.hist # remote.hist
        /\ ~LocalChanges
        /\ SetHead(remote)
        /\ wt' = remote.doc
        /\ index' = remote.doc
        /\ lastWriter' = 0
        /\ Goto(p, "insert")
        /\ compSince' = [q \in Procs |-> FALSE]
        /\ UNCHANGED << merging, unmerged, commitDoc >>
     \/ \* a merge commit of both histories
        /\ merging = {}
        /\ Diverged
        /\ ~LocalChanges
        /\ MergeClean(MergeBase, head.doc, remote.doc)
        /\ LET doc == MergeDoc(MergeBase, head.doc, remote.doc)
               id == Len(commitDoc) + 1
           IN  /\ SetHead([doc |-> doc, hist |-> head.hist \cup remote.hist \cup {id}])
               /\ commitDoc' = Append(commitDoc, doc)
               /\ wt' = doc
               /\ index' = doc
        /\ lastWriter' = 0
        /\ Goto(p, "insert")
        /\ compSince' = [q \in Procs |-> FALSE]
        /\ UNCHANGED << merging, unmerged >>
     \/ \* a merge that conflicts: git leaves the markers in the document
        /\ merging = {}
        /\ Diverged
        /\ ~LocalChanges
        /\ ~MergeClean(MergeBase, head.doc, remote.doc)
        /\ wt' = MergeDoc(MergeBase, head.doc, remote.doc)
        /\ merging' = remote.hist
        /\ unmerged' = TRUE
        /\ lastWriter' = 0
        /\ PullFailed(p)
        /\ UNCHANGED << index, head, branchRef, commitDoc, compSince >>

(***************************************************************************)
(* insertRant, first half: the clock is read, the document is read, the    *)
(* container marker is looked for.                                         *)
(***************************************************************************)
\* no container marker: an error message, then process.exit(1)
StructureFailedNoExit(p) ==
  /\ pc' = [pc EXCEPT ![p] = "write"]
  /\ failed' = [failed EXCEPT ![p] = "structure"]
  /\ UNCHANGED exit

StructureFailed(p) == Fail(p, "structure")

InsertRead(p) ==
  /\ UNCHANGED linkVars
  /\ pc[p] = "insert"
  /\ Call(p, "read")
  /\ UNCHANGED << repoVars, opt, newContent, nInv, nComp, confVars, histVars >>
  /\ \/ \* the file is not there or cannot be read
        /\ Fail(p, "read")
        /\ UNCHANGED << content, date, ms, now >>
     \/ \E t \in now..MaxNow :
          /\ now' = t
          /\ date' = [date EXCEPT ![p] = DateOf(t)]
          /\ ms' = [ms EXCEPT ![p] = t]
          /\ content' = [content EXCEPT ![p] = wt]
          /\ IF TimelineMatch(wt) = 0
             THEN StructureFailed(p)
             ELSE Goto(p, "write")

(***************************************************************************)
(* insertRant, second half: the position and the markup are computed, the  *)
(* document is spliced and written back; then main goes on to              *)
(* gitOperations when -c or -p was given.                                  *)
(***************************************************************************)
EntryOf(p) == ENTRY(date[p], ms[p], opt[p].text)

Occurs(tok, doc) == \E i \in 1..Len(doc) : doc[i] = tok

InsertWrite(p) ==
  /\ UNCHANGED linkVars
  /\ pc[p] = "write"
  /\ Call(p, "write")
  /\ UNCHANGED << index, head, branchRef, checkedOut, merging, unmerged, others,
                  commitDoc, remote, opt, content, date, ms, now, nInv, nComp,
                  confVars, compSince, published >>
  /\ \/ \* the file cannot be written
        /\ Fail(p, "write")
        /\ UNCHANGED << wt, newContent, written, lastWriter >>
     \/ LET pos == InsertPosition(content[p], date[p])
            html == NewRantHTML(content[p], date[p], ms[p], opt[p].text)
            doc == Splice(content[p], pos, html)
        IN  /\ newContent' = [newContent EXCEPT ![p] = doc]
            /\ wt' = doc
            /\ written' = IF Occurs(EntryOf(p), html)
                          THEN written \cup {EntryOf(p)} ELSE written
            /\ lastWriter' = p
            /\ IF opt[p].commit \/ opt[p].push
               THEN Goto(p, "status")
               ELSE Return(p)

(***************************************************************************)
(* gitOperations.  Every command that fails ends the script with status 1. *)
(***************************************************************************)
\* the catch of gitOperations: an error message, then process.exit(1); the
\* document stays as insertRant wrote it
GitFailedRollback(p, step) ==
  /\ Fail(p, step)
  /\ wt' = content[p]

GitFailed(p, step) ==
  /\ Fail(p, step)
  /\ wt' = wt

FileChanged == wt # index \/ index # head.doc \/ unmerged

StatusOutput ==
  StatusLines((IF FileChanged THEN {SiteFile} ELSE {}) \cup others)

GitStatus(p) ==
  /\ UNCHANGED linkVars
  /\ pc[p] = "status"
  /\ Call(p, "status")
  /\ UNCHANGED << index, head, branchRef, checkedOut, merging, unmerged, others,
                  commitDoc, remote, opt, content, newContent, date, ms, now, nInv,
                  nComp, confVars, histVars >>
  /\ \/ GitFailed(p, "status")
     \/ /\ wt' = wt
        /\ IF Includes(StatusOutput, SiteFile)
           THEN Goto(p, "add")
           ELSE Return(p)

GitAdd(p) ==
  /\ UNCHANGED linkVars
  /\ pc[p] = "add"
  /\ Call(p, "add")
  /\ UNCHANGED << head, branchRef, checkedOut, merging, others, commitDoc,
                  remote, opt, content, newContent, date, ms, now, nInv, nComp,
                  confVars, histVars >>
  /\ \/ /\ GitFailed(p, "add")
        /\ UNCHANGED << index, unmerged >>
     \/ /\ wt' = wt
        /\ index' = wt
        /\ unmerged' = FALSE
        /\ IF opt[p].commit THEN Goto(p, "commit") ELSE Return(p)

GitCommit(p) ==
  /\ UNCHANGED linkVars
  /\ pc[p] = "commit"
  /\ Call(p, "commit")
  /\ UNCHANGED << index, checkedOut, unmerged, others, remote, opt, content,
                  newContent, date, ms, now, nInv, nComp, confVars, histVars >>
  /\ \/ \* nothing to commit, unresolved conflicts, a hook, no identity, ...
        /\ GitFailed(p, "commit")
        /\ UNCHANGED << head, branchRef, merging, commitDoc >>
     \/ /\ wt' = wt
        /\ ~unmerged
        /\ index # head.doc \/ merging # {}
        /\ LET id == Len(commitDoc) + 1
           IN  /\ SetHead([doc |-> index, hist |-> head.hist \cup merging \cup {id}])
               /\ commitDoc' = Append(commitDoc, index)
        /\ merging' = {}
        /\ IF opt[p].push THEN Goto(p, "push") ELSE Return(p)

(***************************************************************************)
(* git push origin <branch>: the local branch of that name goes to origin, *)
(* and origin takes it only when it contains what origin has.              *)
(***************************************************************************)
PushForced == TRUE

PushAccepted == remote.hist \subseteq branchRef.hist

GitPush(p) ==
  /\ UNCHANGED linkVars
  /\ pc[p] = "push"
  /\ Call(p, "push")
  /\ UNCHANGED << index, head, branchRef, checkedOut, merging, unmerged,
                  others, commitDoc, opt, content, newContent, date, ms, now,
                  nInv, nComp, confVars, written, lastWriter, compSince >>
  /\ \/ \* rejected (non-fast-forward), no network, ...
        /\ GitFailed(p, "push")
        /\ UNCHANGED << remote, published >>
     \/ /\ wt' = wt
        /\ PushAccepted
        /\ remote' = branchRef
        /\ published' = published \cup branchRef.hist
        /\ Return(p)

(***************************************************************************)
(* Another clone of the repository runs the script with -p and its push    *)
(* reaches origin: origin's branch gets one more commit, whose document is *)
(* origin's with that clone's rant inserted.                               *)
(***************************************************************************)
CompetitorTexts == {0}
CompetitorClock == {0, MaxNow}

InPushWindow(p) ==
  opt[p].push /\ pc[p] \in {"insert", "write", "status", "add", "commit", "push"}

CompetitorPush ==
  /\ UNCHANGED linkVars
  /\ nComp < MaxCompetitor
  /\ nComp' = nComp + 1
  /\ TimelineMatch(remote.doc) # 0
  /\ \E t \in CompetitorClock, x \in CompetitorTexts :
       LET d == DateOf(t)
           doc == Splice(remote.doc, InsertPosition(remote.doc, d),
                         NewRantHTML(remote.doc, d, t, x))
           id == Len(commitDoc) + 1
       IN  /\ remote' = [doc |-> doc, hist |-> remote.hist \cup {id}]
           /\ commitDoc' = Append(commitDoc, doc)
           /\ published' = published \cup {id}
  /\ compSince' = [p \in Procs |-> compSince[p] \/ InPushWindow(p)]
  /\ UNCHANGED << wt, index, head, branchRef, checkedOut, merging, unmerged,
                  others, procVars, now, nInv, confVars, written, lastWriter >>

Next ==
  \/ \E p \in Procs : Start(p)
  \/ \E p \in Procs : Pull(p)
  \/ \E p \in Procs : InsertRead(p)
  \/ \E p \in Procs : InsertWrite(p)
  \/ \E p \in Procs : GitStatus(p)
  \/ \E p \in Procs : GitAdd(p)
  \/ \E p \in Procs : GitCommit(p)
  \/ \E p \in Procs : GitPush(p)
  \/ CompetitorPush

NextPlain ==
  \/ \E p \in Procs : Start(p)
  \/ \E p \in Procs : InsertRead(p)
  \/ \E p \in Procs : InsertWrite(p)

Spec == Init /\ [][NextPlain]_vars

SpecSync == InitSync /\ [][Next]_vars

SpecFull == InitFull /\ [][Next]_vars

SpecRace == InitRace /\ [][Next]_vars

(***************************************************************************)
(* Vocabulary of the properties.  It reads documents and traces on its     *)
(* own, without the operators of insertRant.                               *)
(***************************************************************************)
Has(seq, x) == \E i \in 1..Len(seq) : seq[i] = x

Count(seq, x) == Cardinality({i \in 1..Len(seq) : seq[i] = x})

GitSteps == {"status", "add", "commit", "push"}

NoGitStep(p) == \A i \in 1..Len(trace[p]) : trace[p][i] \notin GitSteps

\* p has read the document
HasRead(p) == Has(trace[p], "read") /\ failed[p] # "read"

\* p has written the document
Wrote(p) == Has(trace[p], "write") /\ pc[p] # "write" /\ failed[p] # "write"

HasContainer(doc) == \E i \in 1..Len(doc) : doc[i].k = "TL"

DayTags(doc, d) == {i \in 1..Len(doc) : doc[i].k = "DAY" /\ doc[i].d = d}

AllDayTags(doc) == {i \in 1..Len(doc) : doc[i].k = "DAY"}

IsWS(tok) == tok.k = "WS"

NotWS(tok) == tok.k # "WS"

\* the kinds of the first three tokens after position i that are no white space
KindsAfter(doc, i) ==
  LET rest == SelectSeq(SubSeq(doc, i + 1, Len(doc)), NotWS)
  IN  [j \in 1..3 |-> IF j <= Len(rest) THEN rest[j].k ELSE "EOF"]

\* the day section opened at i starts with a header block
HeaderFollows(doc, i) == KindsAfter(doc, i) = << "HDROPEN", "SPAN", "CLOSE" >>

\* the document has an opening tag for d, and none of them has a header block
Malformed(doc, d) ==
  /\ DayTags(doc, d) # {}
  /\ \A i \in DayTags(doc, d) : ~HeaderFollows(doc, i)

(***************************************************************************)
(* C1.  A document with the container marker and an opening tag of a day   *)
(* section for today whose header block does not match: nothing is         *)
(* inserted, the document on disk is what it was, the script exits with a  *)
(* nonzero status and goes on to no stage, commit or push.                 *)
(* The code splices with both variables unassigned and writes              *)
(* content + "undefined" + content.                                        *)
(***************************************************************************)
C1_MalformedSectionFails ==
  \A p \in Procs :
    ( /\ HasRead(p)
      /\ Has(trace[p], "write") /\ pc[p] # "write"
      /\ HasContainer(content[p])
      /\ Malformed(content[p], date[p]) )
    => /\ wt = content[p]
       /\ pc[p] = "done" /\ exit[p] = 1
       /\ NoGitStep(p)

(***************************************************************************)
(* C2.  A document without the container marker: the script writes         *)
(* nothing, so the document on disk is the one it read; it reports the     *)
(* structural error, exits with status 1 and runs no git status, add,      *)
(* commit or push.                                                         *)
(***************************************************************************)
C2_NoContainerNoWrite ==
  \A p \in Procs :
    (HasRead(p) /\ ~HasContainer(content[p]))
    => /\ pc[p] = "done" /\ exit[p] = 1 /\ failed[p] = "structure"
       /\ ~Has(trace[p], "write") /\ NoGitStep(p)
       /\ wt = content[p]
       /\ newContent[p] = << >>

\* a run with -p that has pulled and then found no container marker
C2_Witness ==
  \E p \in Procs :
    /\ HasRead(p) /\ ~HasContainer(content[p])
    /\ opt[p].push /\ trace[p] = << "pull", "read" >>
    /\ failed[p] = "structure" /\ exit[p] = 1

(***************************************************************************)
(* C3.  -p was given and the pull fails: the run ends there with status 1; *)
(* the document is neither read nor written by it and no git status, add,  *)
(* commit or push is run.  A pull is only made when -p was given.          *)
(***************************************************************************)
C3_PullFailureAborts ==
  \A p \in Procs :
    /\ Has(trace[p], "pull") => opt[p].push
    /\ failed[p] = "pull"
       => /\ pc[p] = "done" /\ exit[p] = 1
          /\ trace[p] = << "pull" >>
          /\ content[p] = << >> /\ newContent[p] = << >>

C3_Witness ==
  \E p \in Procs :
    failed[p] = "pull" /\ opt[p].push /\ pc[p] = "done" /\ exit[p] = 1

(***************************************************************************)
(* C4.  Whatever the order in which invocations on one working copy take   *)
(* their steps, every entry that an invocation has written to the document *)
(* is in the document from then on.                                        *)
(* The code reads and writes the file with no lock in between, so of two   *)
(* runs that both read before either writes, the second write drops the    *)
(* entry of the first.                                                     *)
(***************************************************************************)
C4_WrittenEntriesStay == \A e \in written : Has(wt, e)

(***************************************************************************)
(* C5.  A push of another clone reaches origin after this run's pull and   *)
(* before its push: the push of this run fails, the run ends with status 1 *)
(* having made every call once (no second pull, no second push), and       *)
(* origin's branch keeps every commit it has held and every entry of those *)
(* commits.                                                                *)
(***************************************************************************)
Entries(doc) == {doc[i] : i \in {j \in 1..Len(doc) : doc[j].k = "ENTRY"}}

OriginKeepsAll ==
  /\ published \subseteq remote.hist
  /\ \A id \in published : Entries(commitDoc[id]) \subseteq Entries(remote.doc)

C5_LatePushRejected ==
  /\ OriginKeepsAll
  /\ \A p \in Procs :
       (compSince[p] /\ Has(trace[p], "push"))
       => /\ failed[p] = "push" /\ pc[p] = "done" /\ exit[p] = 1
          /\ trace[p] = << "pull", "read", "write", "status", "add", "commit", "push" >>

\* the run's commit was made on the branch that is pushed, and origin has
\* the competitor's entry and not this run's
C5_Witness ==
  \E p \in Procs :
    /\ compSince[p] /\ failed[p] = "push"
    /\ checkedOut = SiteBranch
    /\ ~(remote.hist \subseteq branchRef.hist)
    /\ \E e \in Entries(remote.doc) : e.x \in CompetitorTexts
    /\ EntryOf(p) \in Entries(branchRef.doc) \ Entries(remote.doc)

(***************************************************************************)
(* C6.  git status, add, commit or push fails after the document was       *)
(* written: the run ends there with status 1, the failing command was run  *)
(* once and nothing after it, and the document on disk is the one the run  *)
(* wrote, with the new entry in it.                                        *)
(***************************************************************************)
C6_GitFailureKeepsDocument ==
  \A p \in Procs :
    failed[p] \in GitSteps
    => /\ pc[p] = "done" /\ exit[p] = 1
       /\ trace[p][Len(trace[p])] = failed[p]
       /\ \A g \in GitSteps : Count(trace[p], g) <= 1
       /\ Wrote(p)
       /\ wt = newContent[p]
       /\ Has(wt, EntryOf(p))
       /\ ~Has(content[p], EntryOf(p))

\* each of the four commands is seen to fail
C6_Witness ==
  \E p \in Procs :
    /\ failed[p] = "commit"
    /\ trace[p] = << "read", "write", "status", "add", "commit" >>
    /\ Has(wt, EntryOf(p)) /\ index = wt /\ head.doc # wt

(***************************************************************************)
(* More vocabulary: counting and delimiting day sections.                  *)
(***************************************************************************)
KindCount(doc, k) == Cardinality({i \in 1..Len(doc) : doc[i].k = k})

\* the end of the header block of the section opened at i: its third token
\* that is no white space
HeaderEnd(doc, i) ==
  Min({j \in (i + 1)..Len(doc) :
         Cardinality({k \in (i + 1)..j : NotWS(doc[k])}) = 3})

Opens == {"TL", "DAY", "HDROPEN"}

\* the </div> that closes the element opened at i
CloseOf(doc, i) ==
  Min({j \in (i + 1)..Len(doc) :
         Cardinality({k \in i..j : doc[k].k \in Opens})
           = Cardinality({k \in i..j : doc[k].k = "CLOSE"})})

\* the opening tag of the section that position i lies in, 0 if in none
SectionOf(doc, i) ==
  LET before == {j \in AllDayTags(doc) : j < i}
  IN  IF before = {} THEN 0 ELSE Max(before)

\* a container marker, every section with a header block, one section a date
OnePerDate(doc) ==
  /\ HasContainer(doc)
  /\ \A i \in AllDayTags(doc) :
       /\ HeaderFollows(doc, i)
       /\ \A j \in AllDayTags(doc) : doc[j].d = doc[i].d => j = i

(***************************************************************************)
(* C7.  From a document with the container marker and at most one day      *)
(* section a date, each with its header block, every sequence of           *)
(* insertions leaves at most one section a date; an insertion for a date   *)
(* that has its section adds one entry and no section and no header.       *)
(***************************************************************************)
C7_OneSectionPerDate ==
  /\ OnePerDate(commitDoc[1]) => OnePerDate(wt)
  /\ \A p \in Procs :
       (Wrote(p) /\ OnePerDate(content[p]) /\ DayTags(content[p], date[p]) # {})
       => /\ KindCount(wt, "DAY") = KindCount(content[p], "DAY")
          /\ KindCount(wt, "HDROPEN") = KindCount(content[p], "HDROPEN")
          /\ KindCount(wt, "ENTRY") = KindCount(content[p], "ENTRY") + 1
          /\ Has(wt, EntryOf(p))

\* the second of two insertions for a date whose section the first created
C7_Witness ==
  \E p \in Procs :
    /\ Wrote(p) /\ OnePerDate(commitDoc[1])
    /\ DayTags(commitDoc[1], date[p]) = {}
    /\ DayTags(content[p], date[p]) # {}
    /\ Cardinality(DayTags(wt, date[p])) = 1

(***************************************************************************)
(* C8.  In a day section the entries stand newest first: an insertion for  *)
(* a date whose section has its header block puts the entry right after    *)
(* that header block, before every entry the section had.  (The text of    *)
(* the n-th invocation is n; a hand-written entry has text 0.)             *)
(***************************************************************************)
EntryAt(doc) == {i \in 1..Len(doc) : doc[i].k = "ENTRY"}

NewestFirst(doc) ==
  \A i \in EntryAt(doc), j \in EntryAt(doc) :
    (i < j /\ SectionOf(doc, i) # 0 /\ SectionOf(doc, i) = SectionOf(doc, j))
    => doc[i].x > doc[j].x

WithHeader(doc, d) == {i \in DayTags(doc, d) : HeaderFollows(doc, i)}

C8_NewestFirstInSection ==
  /\ NewestFirst(wt)
  /\ \A p \in Procs :
       (Wrote(p) /\ WithHeader(content[p], date[p]) # {})
       => LET old == content[p]
              h == HeaderEnd(old, Min(WithHeader(old, date[p])))
          IN  /\ wt = SubSeq(old, 1, h) \o << WS(2), EntryOf(p) >>
                        \o SubSeq(old, h + 1, Len(old))
              /\ \A j \in EntryAt(wt) :
                   SectionOf(wt, j) = SectionOf(wt, h + 2) => j >= h + 2

\* entry B of the second invocation stands before entry A of the first
C8_Witness ==
  \E i \in EntryAt(wt), j \in EntryAt(wt) :
    /\ i < j /\ SectionOf(wt, i) = SectionOf(wt, j) /\ SectionOf(wt, i) # 0
    /\ wt[i].x = 2 /\ wt[j].x = 1

(***************************************************************************)
(* C9.  An insertion for a date that has no section makes one section with *)
(* one entry, right before the first section after the container marker,   *)
(* or right after the marker when no section follows it.                   *)
(***************************************************************************)
Lead(tok, d) == tok.k = "WS" \/ tok = CMT(d)

C9_NewDateNewSection ==
  \A p \in Procs :
    (Wrote(p) /\ DayTags(content[p], date[p]) = {})
    => LET old == content[p]
           tl == Min({i \in 1..Len(old) : old[i].k = "TL"})
           after == {i \in AllDayTags(old) : i > tl}
           at == IF after = {} THEN tl + 1 ELSE Min(after)
       IN  /\ KindCount(wt, "DAY") = KindCount(old, "DAY") + 1
           /\ KindCount(wt, "ENTRY") = KindCount(old, "ENTRY") + 1
           /\ Cardinality(DayTags(wt, date[p])) = 1
           /\ LET i == Min(DayTags(wt, date[p]))
                  e == CloseOf(wt, i)
              IN  /\ HeaderFollows(wt, i)
                  /\ {wt[j] : j \in EntryAt(wt) \cap (i..e)} = {EntryOf(p)}
                  /\ Cardinality(EntryAt(wt) \cap (i..e)) = 1
                  /\ \A j \in at..(i - 1) : Lead(wt[j], date[p])
                  /\ SubSeq(wt, 1, at - 1) = SubSeq(old, 1, at - 1)
                  /\ SubSeq(wt, e + 1, Len(wt)) = SubSeq(old, at, Len(old))

\* a new date put before the section of another date
C9_Witness ==
  \E p \in Procs :
    /\ Wrote(p) /\ DayTags(content[p], date[p]) = {}
    /\ \E i \in AllDayTags(content[p]) :
         /\ i > Min({j \in 1..Len(content[p]) : content[p][j].k = "TL"})
         /\ content[p][i].d < date[p]
         /\ HeaderFollows(content[p], i)

(***************************************************************************)
(* C10.  Every insertion that writes the document writes the document it   *)
(* read with one block, the new entry or the new section with its entry,   *)
(* put in at one position, and the rest as it was.                         *)
(* Fails with C1: for a section without its header block the code writes   *)
(* the document twice over with "undefined" in between.                    *)
(***************************************************************************)
C10_OneBlockSpliced ==
  \A p \in Procs :
    Wrote(p)
    => \E pos \in 0..Len(content[p]) :
         \E block \in { << WS(2), EntryOf(p) >>,
                        NewSectionHTML(date[p], ms[p], opt[p].text) } :
           wt = SubSeq(content[p], 1, pos) \o block
                  \o SubSeq(content[p], pos + 1, Len(content[p]))

(***************************************************************************)
(* C11.  A run ends with status 0 only when nothing failed: the entry was  *)
(* inserted and every git command that was asked for and run succeeded.    *)
(* It ends with status 1 whenever the container marker is missing, the     *)
(* section for the date is malformed, the file cannot be read or written,  *)
(* or git pull, status, add, commit or push fails.                         *)
(* Fails with C1: on a malformed section the run ends with status 0.       *)
(***************************************************************************)
Ended(p) == pc[p] = "done"

Inserted(p) ==
  /\ Wrote(p)
  /\ Count(newContent[p], EntryOf(p)) = Count(content[p], EntryOf(p)) + 1
  /\ Len(newContent[p]) <= Len(content[p]) + Len(NewSectionHTML(0, 0, 0))

StructuralFailure(p) ==
  HasRead(p) /\ (~HasContainer(content[p]) \/ Malformed(content[p], date[p]))

C11_ExitContract ==
  \A p \in Procs :
    Ended(p)
    => /\ exit[p] \in {0, 1}
       /\ exit[p] = 0
          => /\ failed[p] = "none"
             /\ Inserted(p)
       /\ (failed[p] # "none" \/ StructuralFailure(p)) => exit[p] = 1

\* the exit contract for every run but those on a malformed section
C11_ExitContractWellFormed ==
  \A p \in Procs :
    (Ended(p) /\ ~(HasRead(p) /\ Malformed(content[p], date[p])))
    => /\ exit[p] \in {0, 1}
       /\ exit[p] = 0
          => /\ failed[p] = "none"
             /\ Inserted(p)
       /\ (failed[p] # "none" \/ StructuralFailure(p)) => exit[p] = 1

(***************************************************************************)
(* Runs with -c or -p that may overlap, in a repository where other files  *)
(* may have changes too.                                                   *)
(***************************************************************************)
Publishing == { << TRUE, FALSE >>, << TRUE, TRUE >> }

InitStatus == InitWith({OneSection}, {SiteBranch}, OtherPaths, Procs, Publishing)

SpecStatus == InitStatus /\ [][Next]_vars

(***************************************************************************)
(* C12.  When git status has answered, the run goes on to git add exactly  *)
(* when the document differs from the last commit; changes of other files, *)
(* whatever their names, do not count, and with an unchanged document the  *)
(* run ends there.                                                         *)
(* The code looks for the file name anywhere in the output of              *)
(* git status --porcelain, so a changed file whose path contains the name  *)
(* makes it go on with an unchanged document.                              *)
(***************************************************************************)
TargetDiffers == wt # head.doc \/ index # head.doc \/ unmerged

StatusAnswered(p) ==
  pc[p] = "status" /\ pc'[p] # "status" /\ failed'[p] # "status"

C12_StatusOfTargetOnly ==
  [][ \A p \in Procs :
        StatusAnswered(p)
        => /\ pc'[p] = "add" <=> TargetDiffers
           /\ pc'[p] # "add" => (pc'[p] = "done" /\ exit'[p] = 0) ]_vars

\* the same where no other file has changes
C12_StatusAloneInRepository ==
  [][ \A p \in Procs :
        (StatusAnswered(p) /\ others = {})
        => /\ pc'[p] = "add" <=> TargetDiffers
           /\ pc'[p] # "add" => (pc'[p] = "done" /\ exit'[p] = 0) ]_vars

(***************************************************************************)
(* C13.  The calls of a run are made in the order pull, read, write,       *)
(* status, add, commit, push, each at most once.  The pull is made exactly *)
(* when -p was given, and the document is read only after it succeeded;    *)
(* commit is run only after add succeeded and push only after commit       *)
(* succeeded.                                                              *)
(***************************************************************************)
Order == << "pull", "read", "write", "status", "add", "commit", "push" >>

Rank(step) == CHOOSE i \in 1..Len(Order) : Order[i] = step

InOrder(tr) ==
  /\ \A i \in 1..Len(tr) : Has(Order, tr[i])
  /\ \A i \in 1..Len(tr), j \in 1..Len(tr) : i < j => Rank(tr[i]) < Rank(tr[j])

\* step a is in the trace, and step b right before it, and b did not fail
After(p, a, b) ==
  Has(trace[p], a)
  => /\ failed[p] # b
     /\ \E i \in 2..Len(trace[p]) : trace[p][i] = a /\ trace[p][i - 1] = b

C13_StepOrder ==
  \A p \in Procs :
    /\ InOrder(trace[p])
    /\ trace[p] # << >> => (Has(trace[p], "pull") <=> opt[p].push)
    /\ pc[p] = "pull" => (opt[p].push /\ trace[p] = << >>)
    /\ opt[p].push => After(p, "read", "pull")
    /\ After(p, "write", "read")
    /\ After(p, "status", "write")
    /\ After(p, "add", "status")
    /\ After(p, "commit", "add")
    /\ After(p, "push", "commit")
    /\ Has(trace[p], "commit") => opt[p].commit
    /\ Has(trace[p], "push") => opt[p].push

\* a run with -p that went through all seven calls and ended with status 0
C13_Witness ==
  \E p \in Procs :
    trace[p] = Order /\ pc[p] = "done" /\ exit[p] = 0 /\ failed[p] = "none"

(***************************************************************************)
(* C14.  From a document whose day sections stand in descending order of   *)
(* their dates (each with its header block), every sequence of insertions, *)
(* each dated by the clock of the machine when it runs, leaves the day     *)
(* sections after the container marker in strictly descending order of     *)
(* their dates.                                                            *)
(* The code puts the section of a new date before the first section        *)
(* without comparing dates, so a section dated after today ends up below   *)
(* today's.                                                                *)
(***************************************************************************)
Container(doc) == Min({i \in 1..Len(doc) : doc[i].k = "TL"})

Descending(doc) ==
  \A i \in AllDayTags(doc), j \in AllDayTags(doc) :
    (Container(doc) < i /\ i < j) => doc[i].d > doc[j].d

C14_SectionsNewestFirst ==
  (OnePerDate(commitDoc[1]) /\ Descending(commitDoc[1])) => Descending(wt)

\* the same from documents in which no section is dated after the first
\* reading of the clock
C14_FromPastSections ==
  ( /\ OnePerDate(commitDoc[1]) /\ Descending(commitDoc[1])
    /\ \A i \in AllDayTags(commitDoc[1]) : commitDoc[1][i].d = 0 )
  => Descending(wt)

(***************************************************************************)
(* autoLinkUrls.  A text is a sequence of pieces: the scheme "https://",   *)
(* the label "www", a word of two or more letters, and the characters      *)
(* . , ? / and the blank ("," stands for any of , ; ! which the pattern    *)
(* treats alike).  The pattern has three alternatives, tried in this order *)
(* at every position from the left:                                        *)
(*   1  https?://  host+  path*  query?                                    *)
(*   2  www.       host+  path*  query?                                    *)
(*   3  (label.)+ letters{2,}  path*  query?                               *)
(* host is [-\w.], a path is "/" and a run of path characters, a query is  *)
(* "?" and a run of query characters.  Every run is greedy.                *)
(***************************************************************************)
Scheme == "https://"
Www == "www"
Word == "example"
Dot == "."
Comma == ","
Quest == "?"
Slash == "/"
Blank == " "

Alphabet == {Scheme, Www, Word, Dot, Comma, Quest, Slash, Blank}

Letters == {Www, Word}
HostChars == {Www, Word, Dot}
PathChars == {Www, Word, Dot, Comma, Scheme}
QueryChars == {Www, Word, Dot, Comma, Scheme, Slash, Quest}

IsLetters(c) == c \in Letters
HostChar(c) == c \in HostChars

At(text, i) == IF i \in 1..Len(text) THEN text[i] ELSE "EOF"

\* the last position of the run of pieces of the class that starts at i;
\* i - 1 if there is none
RunEnd(text, i, class) ==
  Max({j \in (i - 1)..Len(text) : \A k \in i..j : text[k] \in class})

RECURSIVE PathEnd(_, _)
PathEnd(text, j) ==
  IF At(text, j + 1) = Slash
  THEN PathEnd(text, RunEnd(text, j + 2, PathChars))
  ELSE j

QueryEnd(text, j) ==
  IF At(text, j + 1) = Quest THEN RunEnd(text, j + 2, QueryChars) ELSE j

TailEnd(text, j) == QueryEnd(text, PathEnd(text, j))

\* the end of the match of each alternative at i, 0 when it does not match
SchemeMatch(text, i) ==
  LET h == RunEnd(text, i + 1, HostChars)
  IN  IF At(text, i) = Scheme /\ h > i THEN TailEnd(text, h) ELSE 0

WwwMatch(text, i) ==
  LET h == RunEnd(text, i + 2, HostChars)
  IN  IF At(text, i) = Www /\ At(text, i + 1) = Dot /\ h > i + 1
      THEN TailEnd(text, h) ELSE 0

RECURSIVE LabelsEnd(_, _)
LabelsEnd(text, j) ==
  IF At(text, j + 1) = Dot /\ IsLetters(At(text, j + 2))
  THEN LabelsEnd(text, RunEnd(text, j + 2, Letters))
  ELSE j

DomainMatch(text, i) ==
  LET r == RunEnd(text, i, Letters)
      d == LabelsEnd(text, r)
  IN  IF r >= i /\ d > r THEN TailEnd(text, d) ELSE 0

UrlMatch(text, i) ==
  IF SchemeMatch(text, i) # 0 THEN SchemeMatch(text, i)
  ELSE IF WwwMatch(text, i) # 0 THEN WwwMatch(text, i)
  ELSE DomainMatch(text, i)

TrailingPunctuation == {Dot, Comma, Quest}

\* match.replace(/[.,;:!?]+$/, '')
CleanMatchKeepAll(match) == match

CleanMatch(match) ==
  SubSeq(match, 1,
         Max({k \in 0..Len(match) : k = 0 \/ match[k] \notin TrailingPunctuation}))

Url(cleanMatch) ==
  IF At(cleanMatch, 1) = Scheme THEN cleanMatch ELSE << Scheme >> \o cleanMatch

PlainText(c) == [k |-> "text", href |-> << >>, text |-> << c >>]

Anchor(url, shown) == [k |-> "a", href |-> url, text |-> shown]

\* the callback of text.replace
Replacement(match) ==
  LET cleanMatch == CleanMatch(match)
      trailingPunctuation == SubSeq(match, Len(cleanMatch) + 1, Len(match))
  IN  << Anchor(Url(cleanMatch), cleanMatch) >>
        \o [i \in 1..Len(trailingPunctuation) |-> PlainText(trailingPunctuation[i])]

RECURSIVE ReplaceFrom(_, _)
ReplaceFrom(text, i) ==
  IF i > Len(text) THEN << >>
  ELSE LET e == UrlMatch(text, i)
       IN  IF e = 0 THEN << PlainText(text[i]) >> \o ReplaceFrom(text, i + 1)
           ELSE Replacement(SubSeq(text, i, e)) \o ReplaceFrom(text, e + 1)

AutoLinkUrls(text) == ReplaceFrom(text, 1)

(***************************************************************************)
(* autoLinkUrls applied to every text of up to MaxLen pieces in which the  *)
(* scheme does not follow a letter, a dot or a scheme (there the pattern    *)
(* would match a part of the piece), and to the text of the example.       *)
(***************************************************************************)
MaxLen == 4

Texts(n) == UNION {[1..m -> Alphabet] : m \in 0..n}

SchemeApart(text) ==
  \A i \in 2..Len(text) :
    text[i] = Scheme => ~(HostChar(text[i - 1]) \/ text[i - 1] = Scheme)

Example ==
  << Word, Blank, Scheme, Word, Dot, Word, Slash, Word, Comma, Word, Dot >>

RantTexts == {t \in Texts(MaxLen) : SchemeApart(t)} \cup {Example}

InitLink == InitState({OneSection}, {SiteBranch}, {{}}, {}, Plain, RantTexts)

AutoLink ==
  /\ linked = NotLinked
  /\ linked' = AutoLinkUrls(rantText)
  /\ UNCHANGED << repoVars, procVars, now, nInv, nComp, confVars, histVars,
                  rantText >>

SpecLink == InitLink /\ [][AutoLink]_vars

(***************************************************************************)
(* C15.  In what autoLinkUrls returns, no link target and no link text     *)
(* ends with one of . , ; : ! ? : the punctuation that ended a matched URL *)
(* stands right after the closing tag, so that the output without its      *)
(* anchor tags is the raw text.  The target is the link text, with         *)
(* "https://" put before it when it has no scheme.  For                    *)
(* "See https://example.com/a,b." the target is https://example.com/a,b    *)
(* and the "." follows the anchor.                                         *)
(***************************************************************************)
RECURSIVE WithoutTags(_)
WithoutTags(out) ==
  IF out = << >> THEN << >> ELSE Head(out).text \o WithoutTags(Tail(out))

Anchors(out) == {i \in 1..Len(out) : out[i].k = "a"}

EndsClean(s) == s # << >> /\ s[Len(s)] \notin {".", ",", "?"}

ExampleUrl == << "https://", "example", ".", "example", "/", "example", ",", "example" >>

C15_TrailingPunctuationOutside ==
  linked # NotLinked
  => /\ WithoutTags(linked) = rantText
     /\ \A i \in Anchors(linked) :
          /\ EndsClean(linked[i].text)
          /\ EndsClean(linked[i].href)
          /\ linked[i].href \in {linked[i].text, << "https://" >> \o linked[i].text}
          /\ linked[i].href[1] = "https://"
     /\ \A i \in 1..Len(linked) : linked[i].k \in {"a", "text"}
     /\ rantText = Example
        => /\ Len(linked) = 4 /\ Anchors(linked) = {3}
           /\ linked[3].href = ExampleUrl /\ linked[3].text = ExampleUrl
           /\ linked[4].k = "text" /\ linked[4].text = << "." >>

\* the example: the anchor, then the "." outside of it
C15_Witness ==
  /\ rantText = Example /\ linked # NotLinked
  /\ \E i \in Anchors(linked) :
       i < Len(linked) /\ linked[i + 1].k = "text" /\ linked[i + 1].text = << "." >>

(***************************************************************************)
(* C16.  A run whose push succeeded: from then on origin's branch          *)
(* <siteConfig.branch> has a commit that holds the entry of the run,       *)
(* whichever branch is checked out in the working copy.                    *)
(* The code commits on the checked-out branch and pushes the local branch  *)
(* of the configured name; with another branch checked out git has nothing *)
(* to push, says so with status 0, and the run reports the push as done.   *)
(***************************************************************************)
Pushed(p) ==
  Has(trace[p], "push") /\ pc[p] = "done" /\ failed[p] = "none" /\ exit[p] = 0

OnOrigin(e) ==
  /\ e \in Entries(remote.doc)
  /\ \E id \in remote.hist : e \in Entries(commitDoc[id])

C16_PushedEntryOnOrigin ==
  \A p \in Procs : Pushed(p) => OnOrigin(EntryOf(p))

\* the same with the configured branch checked out
C16_PushedFromConfiguredBranch ==
  \A p \in Procs : (Pushed(p) /\ checkedOut = SiteBranch) => OnOrigin(EntryOf(p))

(***************************************************************************)
(* C17.  The document has two or more day sections for the date of the     *)
(* insertion: the run ends with status 0 and the entry stands right after  *)
(* the header of the first of them in document order; the rest of the      *)
(* document, the later sections for the date with it, is as it was.        *)
(* The code looks for the first opening tag for the date that is followed  *)
(* by a header block: when the first section has none, the entry goes into *)
(* a later section.  (When none has one, the case of C1 arises; the        *)
(* formula leaves that case out.)                                          *)
(***************************************************************************)
WroteTwice(p) ==
  /\ Wrote(p) /\ HasContainer(content[p])
  /\ Cardinality(DayTags(content[p], date[p])) >= 2

InFirstSection(p) ==
  LET old == content[p]
      first == Min(DayTags(old, date[p]))
  IN  /\ HeaderFollows(old, first)
      /\ wt = SubSeq(old, 1, HeaderEnd(old, first)) \o << WS(2), EntryOf(p) >>
                \o SubSeq(old, HeaderEnd(old, first) + 1, Len(old))

C17_FirstOfTwoSections ==
  \A p \in Procs :
    (WroteTwice(p) /\ ~Malformed(content[p], date[p]))
    => (pc[p] = "done" /\ exit[p] = 0 /\ InFirstSection(p))

\* the same where the first section for the date has its header block
C17_FirstOfTwoWithHeader ==
  \A p \in Procs :
    (WroteTwice(p) /\ HeaderFollows(content[p], Min(DayTags(content[p], date[p]))))
    => (pc[p] = "done" /\ exit[p] = 0 /\ InFirstSection(p))

=============================================================================
